---- MODULE Spec2Model ----
(***************************************************************************)
(* A model of fetch.js: the puppeteer script that walks the district and   *)
(* upazila drop-downs of the LGED map page and downloads every             *)
(* /UploadedDocument/*.jpg map of every upazila into lged_maps/upazila and *)
(* lged_maps/road.                                                         *)
(*                                                                         *)
(* Strings are TLA+ strings; a character is a string of length one.  The   *)
(* script is one sequential async function, so every step between two      *)
(* awaits is one action, and downloadImage, which nothing interleaves      *)
(* with, is one action whose collaborator outcomes are drawn with \E.      *)
(***************************************************************************)
EXTENDS Integers, Sequences, FiniteSets, TLC

\* ------------------------------------------------------------------
\* Bounds of the model
\* ------------------------------------------------------------------

\* options the remote reports in the district drop-down, dummy ones included
MaxDistricts == 2
\* options the remote reports in the upazila drop-down of one district
MaxUpazilas == 2
\* occurrences of an UploadedDocument jpg path in the markup of one leaf
MaxPaths == 2
\* files the output folder holds before writeFile fails (disk full)
MaxFiles == 2
\* times the script is started on the same output folder
MaxRuns == 2
\* largest ordinal the naming probe tries
MaxOrdinal == 2

\* ------------------------------------------------------------------
\* Constants of the script
\* ------------------------------------------------------------------

BASE_URL == "https://oldweb.lged.gov.bd/ViewMap.aspx"

OUTPUT_ROOT == "lged_maps"

\* path.join(OUTPUT_ROOT, "upazila")
UPAZILA_DIR == OUTPUT_ROOT \o "/" \o "upazila"

\* path.join(OUTPUT_ROOT, "road")
ROAD_DIR == OUTPUT_ROOT \o "/" \o "road"

\* await sleep(2000); // allow UpdatePanel to reload
DISTRICT_SETTLE_MS == 2000

\* await sleep(2500); // wait for map info to load
UPAZILA_SETTLE_MS == 2500

\* await sleep(1000); after a leaf
LEAF_PACE_MS == 1000

\* await sleep(2000); after a district
DISTRICT_PACE_MS == 2000

\* ------------------------------------------------------------------
\* Strings
\* ------------------------------------------------------------------

UpperLetters == "ABCDEFGHIJKLMNOPQRSTUVWXYZ"

LowerLetters == "abcdefghijklmnopqrstuvwxyz"

Digits == "0123456789"

CharAt(s, i) == SubSeq(s, i, i)

\* c is one of the characters of the string chars
CharIn(c, chars) == \E i \in 1..Len(chars) : CharAt(chars, i) = c

\* the lower-case letter of every upper-case letter
lowerOf ==
  [ c \in { CharAt(UpperLetters, i) : i \in 1..Len(UpperLetters) } |->
      CharAt(LowerLetters, CHOOSE i \in 1..Len(UpperLetters) : CharAt(UpperLetters, i) = c) ]

\* String.prototype.toLowerCase on one character
LowerChar(c) == IF c \in DOMAIN lowerOf THEN lowerOf[c] ELSE c

RECURSIVE toLowerCase(_)
toLowerCase(s) ==
  IF s = "" THEN "" ELSE LowerChar(CharAt(s, 1)) \o toLowerCase(SubSeq(s, 2, Len(s)))

\* String.prototype.includes
includes(s, sub) ==
  \E i \in 1..(Len(s) - Len(sub) + 1) : SubSeq(s, i, i + Len(sub) - 1) = sub

\* JavaScript white space, as far as the labels of the model have any
IsSpace(c) == c = " "

RECURSIVE trimStart(_)
trimStart(s) ==
  IF s # "" /\ IsSpace(CharAt(s, 1)) THEN trimStart(SubSeq(s, 2, Len(s))) ELSE s

RECURSIVE trimEnd(_)
trimEnd(s) ==
  IF s # "" /\ IsSpace(CharAt(s, Len(s))) THEN trimEnd(SubSeq(s, 1, Len(s) - 1)) ELSE s

\* String.prototype.trim
trim(s) == trimEnd(trimStart(s))

\* ------------------------------------------------------------------
\* slugify
\* ------------------------------------------------------------------

\* the class of the first replace: the apostrophe and, which no label of the
\* model contains, the back quote and the three characters U+00E2, U+20AC,
\* U+2122 of a mis-encoded right single quote
QuoteChars == "'"

\* [^a-z0-9] under the i flag
IsAlnum(c) == CharIn(c, LowerLetters) \/ CharIn(c, UpperLetters) \/ CharIn(c, Digits)

\* .replace(/[quote characters]/g, "")
RECURSIVE dropQuotes(_)
dropQuotes(s) ==
  IF s = "" THEN ""
  ELSE IF CharIn(CharAt(s, 1), QuoteChars) THEN dropQuotes(SubSeq(s, 2, Len(s)))
  ELSE CharAt(s, 1) \o dropQuotes(SubSeq(s, 2, Len(s)))

\* .replace(/[^a-z0-9]+/gi, "_"): every maximal run becomes one underscore
RECURSIVE underscoreRuns(_)
underscoreRuns(s) ==
  IF s = "" THEN ""
  ELSE IF IsAlnum(CharAt(s, 1)) THEN CharAt(s, 1) \o underscoreRuns(SubSeq(s, 2, Len(s)))
  ELSE IF Len(s) > 1 /\ ~IsAlnum(CharAt(s, 2)) THEN underscoreRuns(SubSeq(s, 2, Len(s)))
  ELSE "_" \o underscoreRuns(SubSeq(s, 2, Len(s)))

RECURSIVE stripLeft(_)
stripLeft(s) ==
  IF s # "" /\ CharAt(s, 1) = "_" THEN stripLeft(SubSeq(s, 2, Len(s))) ELSE s

RECURSIVE stripRight(_)
stripRight(s) ==
  IF s # "" /\ CharAt(s, Len(s)) = "_" THEN stripRight(SubSeq(s, 1, Len(s) - 1)) ELSE s

\* .replace(/^_+|_+$/g, "")
stripUnderscores(s) == stripRight(stripLeft(s))

slugify(str) == stripUnderscores(underscoreRuns(dropQuotes(toLowerCase(str))))

\* ------------------------------------------------------------------
\* What the remote site can report
\* ------------------------------------------------------------------

SeqsUpTo(S, n) == UNION {[1..m -> S] : m \in 0..n}

\* the option lists of a drop-down: at most n options, no value twice
OptionLists(S, n) ==
  { s \in SeqsUpTo(S, n) : \A i, j \in 1..Len(s) : s[i].value = s[j].value => i = j }

\* <option> elements of #ctl00_ContentPlaceHolder1_ddlDistrict
DistrictOptions ==
  { [value |-> "0", textContent |-> "Select"],
    [value |-> "10", textContent |-> "Dhaka"],
    [value |-> "20", textContent |-> " Feni "] }

\* <option> elements of #ctl00_ContentPlaceHolder1_ddlUpazilla
UpazilaOptions ==
  { [value |-> " -1", textContent |-> "Select"],
    [value |-> "5", textContent |-> "Savar"],
    [value |-> "6", textContent |-> "Sa-var"] }

\* the labels the option lists can hand to slugify
OptionLabels == { trim(opt.textContent) : opt \in DistrictOptions \cup UpazilaOptions }

\* slugify(label) for every label of the option lists
slugOf == [label \in OptionLabels |-> slugify(label)]

\* the matches of /\/UploadedDocument\/[^"']+?\.jpg/gi a leaf's markup can hold
LeafPaths ==
  { "/UploadedDocument/x/savar.jpg",
    "/UploadedDocument/x/savar_road.jpg",
    "/UploadedDocument/../sa-var/Savar.JPG",
    "/UploadedDocument/x/map.jpg" }

\* res.status() of a response
Statuses == {200, 304, 404}

\* milliseconds the round trip of a page.select takes until the UpdatePanel
\* has reloaded: one shorter and one longer than the sleeps that follow
Latencies == {1000, 3000}

\* ------------------------------------------------------------------
\* Reading an option list (the two page.evaluate callbacks are the same)
\* ------------------------------------------------------------------

keepOption(opt) ==
  LET val == trim(opt.value)
  IN  IF val = "" THEN FALSE
      ELSE IF val = "0" \/ val = "-1" THEN FALSE
      ELSE TRUE

RECURSIVE filterOptions(_)
filterOptions(options) ==
  IF options = <<>> THEN <<>>
  ELSE IF keepOption(Head(options))
    THEN << [value |-> Head(options).value, text |-> trim(Head(options).textContent)] >>
           \o filterOptions(Tail(options))
    ELSE filterOptions(Tail(options))

\* a missing <select> gives [], as an empty option list does
readOptions(options) == filterOptions(options)

\* ------------------------------------------------------------------
\* Scraping and classifying the paths of one leaf
\* ------------------------------------------------------------------

member(seq, e) == \E i \in 1..Len(seq) : seq[i] = e

\* Array.from(new Set(...)): first occurrences, in order
RECURSIVE dedupFrom(_, _)
dedupFrom(seen, matches) ==
  IF matches = <<>> THEN seen
  ELSE IF member(seen, Head(matches)) THEN dedupFrom(seen, Tail(matches))
  ELSE dedupFrom(Append(seen, Head(matches)), Tail(matches))

\* the matches as they stand in the markup, without the Set
allOfRepeated(matches) == matches

allOf(matches) == dedupFrom(<<>>, matches)

\* the filter without the lowercasing of the path
matchesSlugCased(p, upSlug) == includes(p, toLowerCase(upSlug))

\* p.toLowerCase().includes(lowerSlug)
matchesSlug(p, upSlug) == includes(toLowerCase(p), toLowerCase(upSlug))

isRoad(p) == includes(toLowerCase(p), "road")

\* all.filter(p => p.toLowerCase().includes(lowerSlug))
filtered(all, upSlug) == LET T(p) == matchesSlug(p, upSlug) IN SelectSeq(all, T)

roadOf(paths) == LET T(p) == isRoad(p) IN SelectSeq(paths, T)

upazilaOf(paths) == LET T(p) == ~isRoad(p) IN SelectSeq(paths, T)

\* what the page.evaluate callback of the leaf returns
scrape(matches, upSlug) ==
  LET all == allOf(matches)
      f == filtered(all, upSlug)
  IN  [ allPaths |-> f, upazilaPaths |-> upazilaOf(f), roadPaths |-> roadOf(f) ]

\* "If classification fails, fall back to treating all as upazila maps"
fallbackUpazila(r) ==
  IF r.upazilaPaths = <<>> /\ r.roadPaths = <<>> /\ r.allPaths # <<>>
    THEN r.allPaths
    ELSE r.upazilaPaths

\* ------------------------------------------------------------------
\* Naming a download
\* ------------------------------------------------------------------

Origin == "https://oldweb.lged.gov.bd"

\* the segments of a path-absolute string: what stands between its slashes,
\* cur being the segment that is being read
RECURSIVE splitPath(_, _)
splitPath(s, cur) ==
  IF s = "" THEN << cur >>
  ELSE IF CharAt(s, 1) = "/" THEN << cur >> \o splitPath(SubSeq(s, 2, Len(s)), "")
  ELSE splitPath(SubSeq(s, 2, Len(s)), cur \o CharAt(s, 1))

\* the URL parser's shorten: the path loses its last segment, if it has one
shorten(path) == IF path = <<>> THEN <<>> ELSE SubSeq(path, 1, Len(path) - 1)

\* the path state of the URL parser: a double-dot segment shortens the path,
\* a single-dot segment is dropped, and either leaves an empty segment when
\* it is the last one
RECURSIVE removeDots(_, _)
removeDots(segments, path) ==
  IF segments = <<>> THEN path
  ELSE
    LET seg == Head(segments)
        last == Len(segments) = 1
    IN  IF seg = ".."
          THEN removeDots(Tail(segments), IF last THEN Append(shorten(path), "") ELSE shorten(path))
        ELSE IF seg = "."
          THEN removeDots(Tail(segments), IF last THEN Append(path, "") ELSE path)
        ELSE removeDots(Tail(segments), Append(path, seg))

\* the URL serializer on the path of a special URL
RECURSIVE joinPath(_)
joinPath(path) ==
  IF path = <<>> THEN "" ELSE "/" \o Head(path) \o joinPath(Tail(path))

\* new URL(rel, BASE_URL).toString() for a rel that starts with one slash and
\* holds no query, fragment, back slash, percent-encoded dot or character the
\* URL parser encodes (every match of the regex in LeafPaths is such a rel):
\* scheme and host are those of BASE_URL, the path is rel without its dot
\* segments
resolveURL(rel) ==
  Origin \o joinPath(removeDots(splitPath(SubSeq(rel, 2, Len(rel)), ""), <<>>))

\* const url = new URL(rel, BASE_URL).toString(), for every rel a leaf can hold
urlOf == [rel \in LeafPaths |-> resolveURL(rel)]

\* the name with one underscore between the two slugs
upazilaDestOneUnderscore(dSlug, uSlug, n) ==
  UPAZILA_DIR \o "/" \o dSlug \o "_" \o uSlug \o "_upazila_" \o ToString(n) \o ".jpg"

\* path.join(UPAZILA_DIR, districtSlug + "__" + upSlug + "_upazila_" + idx + ".jpg")
upazilaDest(dSlug, uSlug, n) ==
  UPAZILA_DIR \o "/" \o dSlug \o "__" \o uSlug \o "_upazila_" \o ToString(n) \o ".jpg"

\* path.join(ROAD_DIR, districtSlug + "__" + upSlug + "_road_" + idx + ".jpg")
roadDest(dSlug, uSlug, n) ==
  ROAD_DIR \o "/" \o dSlug \o "__" \o uSlug \o "_road_" \o ToString(n) \o ".jpg"

\* ------------------------------------------------------------------
\* downloadImage
\* ------------------------------------------------------------------

\* what page.goto can do: throw (transport error, timeout), resolve to null,
\* or resolve to a response
Responses ==
  [kind : {"throw", "null"}, status : {0}] \cup [kind : {"response"}, status : Statuses]

\* what the collaborators do during one call of downloadImage: whether
\* browser.newPage, res.buffer, fs.promises.writeFile and the two page.close
\* calls (the one before an early return, the one in finally) resolve, and
\* what page.goto does.  A page.close on a page that is closed already
\* resolves or rejects, depending on the puppeteer release.
AllOutcomes ==
  [ newPage : BOOLEAN, goto : Responses, buffer : BOOLEAN, write : BOOLEAN,
    closeEarly : BOOLEAN, closeFinally : BOOLEAN ]

non2xx(status) == status < 200 \/ status >= 300

\* the call a step of the outcome o is about is made at all
reachesGoto(o) == o.newPage

reachesEarlyClose(o) ==
  reachesGoto(o) /\ (o.goto.kind = "null" \/ (o.goto.kind = "response" /\ non2xx(o.goto.status)))

reachesBuffer(o) ==
  reachesGoto(o) /\ o.goto.kind = "response" /\ ~non2xx(o.goto.status)

reachesWrite(o) == reachesBuffer(o) /\ o.buffer

\* the outcomes, one for each way a call can go: a collaborator call that is
\* never made has no outcome to draw
Outcomes ==
  { o \in AllOutcomes :
      /\ ~reachesGoto(o) => (o.goto = [kind |-> "null", status |-> 0] /\ o.closeFinally)
      /\ ~reachesEarlyClose(o) => o.closeEarly
      /\ ~reachesBuffer(o) => o.buffer
      /\ ~reachesWrite(o) => o.write }

\* writeFile creates or truncates destPath; it fails on a full disk
writeFile(fs, destPath, bytes) ==
  [d \in DOMAIN fs \cup {destPath} |-> IF d = destPath THEN bytes ELSE fs[d]]

diskFull(fs, destPath) == destPath \notin DOMAIN fs /\ Cardinality(DOMAIN fs) >= MaxFiles

\* the URL whose bytes destPath holds, "" when there is no such file
holds(fs, destPath) == IF destPath \in DOMAIN fs THEN fs[destPath] ELSE ""

line(level, text, about) == [level |-> level, text |-> text, about |-> about]

\* one call downloadImage(browser, url, destPath) on the file system fs: the
\* file system it leaves, what it logged, the pages it opened and closed and
\* whether an exception escaped it
downloadImage(url, destPath, o, fs) ==
  IF ~o.newPage
    THEN [ url |-> url, destPath |-> destPath, existed |-> destPath \in DOMAIN fs,
           held |-> holds(fs, destPath), failure |-> "newPage", opened |-> FALSE, gotos |-> 0, files |-> fs,
           wrote |-> FALSE, log |-> <<>>, closeCalls |-> 0, leftOpen |-> FALSE,
           escaped |-> TRUE ]
    ELSE
      LET res == o.goto
          noRes == res.kind = "null"
          bad == res.kind = "response" /\ non2xx(res.status)
          early == noRes \/ bad
          good == res.kind = "response" /\ ~bad
          saved == good /\ o.buffer /\ o.write /\ ~diskFull(fs, destPath)
          caught == res.kind = "throw" \/ (early /\ ~o.closeEarly) \/ (good /\ ~saved)
          warned == IF noRes THEN << line("warn", "No response for", url) >>
                    ELSE IF bad THEN << line("warn", "Non-200 for", url) >>
                    ELSE <<>>
      IN  [ url |-> url, destPath |-> destPath, existed |-> destPath \in DOMAIN fs,
            held |-> holds(fs, destPath),
            failure |-> IF noRes THEN "null" ELSE IF bad THEN "non2xx"
                        ELSE IF res.kind = "throw" THEN "throw" ELSE "none",
            opened |-> TRUE, gotos |-> 1,
            files |-> IF saved THEN writeFile(fs, destPath, url) ELSE fs,
            wrote |-> saved,
            log |-> warned
                    \o (IF saved THEN << line("log", "Saved:", destPath) >> ELSE <<>>)
                    \o (IF caught THEN << line("error", "Download failed for", url) >> ELSE <<>>),
            closeCalls |-> IF early THEN 2 ELSE 1,
            leftOpen |-> ~(early /\ o.closeEarly) /\ ~o.closeFinally,
            escaped |-> ~o.closeFinally ]

\* ------------------------------------------------------------------
\* State of the script
\* ------------------------------------------------------------------

VARIABLES
  pc,            \* where the async main function stands
  run,           \* how many times the script was started on this output folder
  browser,       \* "none", "open" or "closed": the puppeteer browser
  exitCode,      \* -1 while the process runs, then its exit status
  districts,     \* const districts
  di,            \* position of the for-of loop over districts
  districtSlug,  \* const districtSlug
  upazilas,      \* const upazilas of the current district
  ui,            \* position of the for-of loop over upazilas
  upSlug,        \* const upSlug
  html,          \* the matches of the regex in the leaf's innerHTML, in order
  matched,       \* the local array all of the leaf's page.evaluate callback
  allPaths,      \* const allPaths of the current leaf
  finalUpazila,  \* let finalUpazila
  finalRoad,     \* let finalRoad
  idx,           \* let idx
  k,             \* position of the for-of loop over finalUpazila or finalRoad
  files,         \* the output folder: path -> the URL whose bytes it holds
  lastDl,        \* the downloadImage call the last step made, if it made one
  out,           \* the console lines of the last step
  pending,       \* ms the round trip of the latest page.select still needs, while
                 \* the read that follows the selection is to come
  lastRead,      \* the page.evaluate read the last step made, if it made one
  slept,         \* ms the last step slept
  probe          \* two tasks and the paths they are given, for the naming check

vars ==
  << pc, run, browser, exitCode, districts, di, districtSlug, upazilas, ui, upSlug,
     html, matched, allPaths, finalUpazila, finalRoad, idx, k, files, lastDl, out, pending,
     lastRead, slept, probe >>

\* what no step of a run changes
runVars == << run, probe >>

\* the locals of the body of the district loop, outside the upazila loop
districtVars == << districts, di, districtSlug >>

upazilaVars == << upazilas, ui >>

\* the locals of the body of the upazila loop
leafVars == << upSlug, html, matched, allPaths, finalUpazila, finalRoad, idx, k >>

district == districts[di]

up == upazilas[ui]

Init ==
  /\ pc = "launch"
  /\ run = 1
  /\ browser = "none"
  /\ exitCode = -1
  /\ districts = <<>>
  /\ di = 0
  /\ districtSlug = ""
  /\ upazilas = <<>>
  /\ ui = 0
  /\ upSlug = ""
  /\ html = <<>>
  /\ matched = <<>>
  /\ allPaths = <<>>
  /\ finalUpazila = <<>>
  /\ finalRoad = <<>>
  /\ idx = 0
  /\ k = 0
  /\ files = <<>>
  /\ lastDl = <<>>
  /\ out = <<>>
  /\ pending = 0
  /\ lastRead = <<>>
  /\ slept = 0
  /\ probe = << >>

\* the step selects nothing, reads no page and does not sleep
idle ==
  /\ lastRead' = <<>>
  /\ slept' = 0
  /\ UNCHANGED pending

\* await sleep(ms): the round trip of the latest selection goes on meanwhile
sleep(ms) ==
  /\ slept' = ms
  /\ pending' = IF pending > ms THEN pending - ms ELSE 0

\* a page.evaluate that reads what the page shows now, settled or not
pageRead(what) == [what |-> what, pending |-> pending]

\* no leaf is in scope
noLeaf ==
  /\ upSlug' = ""
  /\ html' = <<>>
  /\ matched' = <<>>
  /\ allPaths' = <<>>
  /\ finalUpazila' = <<>>
  /\ finalRoad' = <<>>
  /\ idx' = 0
  /\ k' = 0

\* an exception leaves main: the promise rejects and the catch of line 228
\* runs next; the locals of main are left as they were
throwToTop ==
  /\ pc' = "fatal"
  /\ UNCHANGED << browser, exitCode >>

\* the district loop goes to its next element, or ends
nextDistrict ==
  /\ districtSlug' = ""
  /\ upazilas' = <<>>
  /\ ui' = 0
  /\ UNCHANGED districts
  /\ IF di < Len(districts)
       THEN di' = di + 1 /\ pc' = "select_district"
       ELSE di' = di /\ pc' = "finish"

\* the upazila loop stepping over an element
nextUpazilaSkip ==
  /\ UNCHANGED upazilas
  /\ IF ui + 1 < Len(upazilas)
       THEN ui' = ui + 2 /\ pc' = "select_upazila"
       ELSE ui' = ui /\ pc' = "district_pace"

\* the upazila loop trying its element again
nextUpazilaRetry ==
  /\ UNCHANGED upazilas
  /\ ui' = ui
  /\ pc' = "select_upazila"

\* the upazila loop goes to its next element, or ends
nextUpazila ==
  /\ UNCHANGED upazilas
  /\ IF ui < Len(upazilas)
       THEN ui' = ui + 1 /\ pc' = "select_upazila"
       ELSE ui' = ui /\ pc' = "district_pace"

\* the ordinal left where it is
nextIdxStuck(n) == n

\* idx++
nextIdx(n) == n + 1

\* let idx = 1; and idx = 1;
firstIdx == 1

\* ------------------------------------------------------------------
\* Steps of main
\* ------------------------------------------------------------------

\* ensureDirs, puppeteer.launch, browser.newPage, page.goto(BASE_URL)
Launch ==
  /\ pc = "launch"
  /\ \E failed \in {"none", "ensureDirs", "launch", "newPage", "goto"} :
       /\ browser' = IF failed \in {"ensureDirs", "launch"} THEN "none" ELSE "open"
       /\ pc' = IF failed = "none" THEN "read_districts" ELSE "fatal"
  /\ out' = <<>>
  /\ lastDl' = <<>>
  /\ idle
  /\ UNCHANGED << runVars, exitCode, districtVars, upazilaVars, leafVars, files >>

\* the page.evaluate of the district list
ReadDistricts ==
  /\ pc = "read_districts"
  /\ out' = <<>>
  /\ lastDl' = <<>>
  /\ slept' = 0
  /\ UNCHANGED pending
  /\ UNCHANGED << runVars, di, districtSlug, upazilaVars, leafVars, files >>
  /\ \/ throwToTop /\ lastRead' = <<>> /\ UNCHANGED districts
     \/ \E options \in OptionLists(DistrictOptions, MaxDistricts) :
          /\ districts' = readOptions(options)
          /\ lastRead' = << pageRead("districts") >>
          /\ pc' = "check_districts"
          /\ UNCHANGED << browser, exitCode >>

\* the exit without the browser.close() before it
NoDistrictsLeak ==
  /\ pc = "check_districts"
  /\ districts = <<>>
  /\ out' = << line("error", "No districts found.", "") >>
  /\ lastDl' = <<>>
  /\ idle
  /\ exitCode' = 1
  /\ pc' = "exited"
  /\ UNCHANGED << runVars, browser, districtVars, upazilaVars, leafVars, files >>

\* if (!districts.length): console.error, browser.close, process.exit(1)
NoDistricts ==
  /\ pc = "check_districts"
  /\ districts = <<>>
  /\ out' = << line("error", "No districts found.", "") >>
  /\ lastDl' = <<>>
  /\ idle
  /\ browser' = "closed"
  /\ exitCode' = 1
  /\ pc' = "exited"
  /\ UNCHANGED << runVars, districtVars, upazilaVars, leafVars, files >>

\* the district loop starts
FoundDistricts ==
  /\ pc = "check_districts"
  /\ districts # <<>>
  /\ out' = << line("log", "Found districts", "") >>
  /\ lastDl' = <<>>
  /\ idle
  /\ di' = 1
  /\ pc' = "select_district"
  /\ UNCHANGED << runVars, browser, exitCode, districts, districtSlug, upazilaVars, leafVars, files >>

\* const districtSlug, and page.select of the district
SelectDistrict ==
  /\ pc = "select_district"
  /\ districtSlug' = slugOf[district.text]
  /\ out' = << line("log", "=== District:", district.text) >>
  /\ lastDl' = <<>>
  /\ lastRead' = <<>>
  /\ slept' = 0
  /\ UNCHANGED << runVars, districts, di, upazilaVars, leafVars, files >>
  /\ \/ throwToTop /\ pending' = 0
     \/ /\ pc' = "settle_district"
        /\ \E latency \in Latencies : pending' = latency
        /\ UNCHANGED << browser, exitCode >>

\* sleep(2000)
SettleDistrict ==
  /\ pc = "settle_district"
  /\ pc' = "read_upazilas"
  /\ out' = <<>>
  /\ lastDl' = <<>>
  /\ lastRead' = <<>>
  /\ sleep(DISTRICT_SETTLE_MS)
  /\ UNCHANGED << runVars, browser, exitCode, districtVars, upazilaVars, leafVars, files >>

\* the page.evaluate of the upazila list
ReadUpazilas ==
  /\ pc = "read_upazilas"
  /\ out' = <<>>
  /\ lastDl' = <<>>
  /\ slept' = 0
  /\ pending' = 0
  /\ UNCHANGED << runVars, districtVars, ui, leafVars, files >>
  /\ \/ throwToTop /\ lastRead' = <<>> /\ UNCHANGED upazilas
     \/ \E options \in OptionLists(UpazilaOptions, MaxUpazilas) :
          /\ upazilas' = readOptions(options)
          /\ lastRead' = << pageRead("upazilas") >>
          /\ pc' = "check_upazilas"
          /\ UNCHANGED << browser, exitCode >>

\* the empty list ending the district loop: break for continue
NoUpazilasBreak ==
  /\ pc = "check_upazilas"
  /\ upazilas = <<>>
  /\ out' = << line("warn", "No upazilas found for district:", district.text) >>
  /\ lastDl' = <<>>
  /\ idle
  /\ pc' = "finish"
  /\ UNCHANGED << runVars, browser, exitCode, districtVars, upazilaVars, leafVars, files >>

\* if (!upazilas.length): console.warn, continue
NoUpazilas ==
  /\ pc = "check_upazilas"
  /\ upazilas = <<>>
  /\ out' = << line("warn", "No upazilas found for district:", district.text) >>
  /\ lastDl' = <<>>
  /\ idle
  /\ nextDistrict
  /\ UNCHANGED << runVars, browser, exitCode, leafVars, files >>

\* the upazila loop starts
FoundUpazilas ==
  /\ pc = "check_upazilas"
  /\ upazilas # <<>>
  /\ out' = << line("log", "Upazilas in", district.text) >>
  /\ lastDl' = <<>>
  /\ idle
  /\ ui' = 1
  /\ pc' = "select_upazila"
  /\ UNCHANGED << runVars, browser, exitCode, districtVars, upazilas, leafVars, files >>

\* const upSlug, and page.select of the upazila
SelectUpazila ==
  /\ pc = "select_upazila"
  /\ upSlug' = slugOf[up.text]
  /\ out' = << line("log", "-> Upazila:", up.text) >>
  /\ lastDl' = <<>>
  /\ lastRead' = <<>>
  /\ slept' = 0
  /\ UNCHANGED << runVars, districtVars, upazilaVars, html, matched, allPaths, finalUpazila, finalRoad,
                  idx, k, files >>
  /\ \/ throwToTop /\ pending' = 0
     \/ /\ pc' = "settle_upazila"
        /\ \E latency \in Latencies : pending' = latency
        /\ UNCHANGED << browser, exitCode >>

\* sleep(2500)
SettleUpazila ==
  /\ pc = "settle_upazila"
  /\ pc' = "scrape"
  /\ out' = <<>>
  /\ lastDl' = <<>>
  /\ lastRead' = <<>>
  /\ sleep(UPAZILA_SETTLE_MS)
  /\ UNCHANGED << runVars, browser, exitCode, districtVars, upazilaVars, leafVars, files >>

\* the page.evaluate of the leaf
Scrape ==
  /\ pc = "scrape"
  /\ out' = <<>>
  /\ lastDl' = <<>>
  /\ slept' = 0
  /\ pending' = 0
  /\ UNCHANGED << runVars, districtVars, upazilaVars, upSlug, idx, k, files >>
  /\ \/ /\ throwToTop
        /\ lastRead' = <<>>
        /\ UNCHANGED << html, matched, allPaths, finalUpazila, finalRoad >>
     \/ \E matches \in SeqsUpTo(LeafPaths, MaxPaths) :
          LET r == scrape(matches, upSlug)
          IN  /\ html' = matches
              /\ matched' = allOf(matches)
              /\ lastRead' = << pageRead("links") >>
              /\ allPaths' = r.allPaths
              /\ finalUpazila' = r.upazilaPaths
              /\ finalRoad' = r.roadPaths
              /\ pc' = "check_paths"
              /\ UNCHANGED << browser, exitCode >>

\* the leaf without paths taken for an error: throw for continue
NoPathsThrow ==
  /\ pc = "check_paths"
  /\ allPaths = <<>>
  /\ out' = << line("error", "No UploadedDocument JPG paths found for", up.text) >>
  /\ lastDl' = <<>>
  /\ idle
  /\ throwToTop
  /\ UNCHANGED << runVars, districtVars, upazilaVars, leafVars, files >>

\* if (!allPaths.length): console.warn, continue
NoPaths ==
  /\ pc = "check_paths"
  /\ allPaths = <<>>
  /\ out' = << line("warn", "No UploadedDocument JPG paths found for", up.text) >>
  /\ lastDl' = <<>>
  /\ idle
  /\ nextUpazila
  /\ noLeaf
  /\ UNCHANGED << runVars, browser, exitCode, districtVars, files >>

\* the fallback, and let idx = 1
Classified ==
  /\ pc = "check_paths"
  /\ allPaths # <<>>
  /\ finalUpazila' =
       fallbackUpazila([allPaths |-> allPaths, upazilaPaths |-> finalUpazila, roadPaths |-> finalRoad])
  /\ idx' = firstIdx
  /\ k' = 1
  /\ pc' = "upazila_maps"
  /\ out' = <<>>
  /\ lastDl' = <<>>
  /\ idle
  /\ UNCHANGED << runVars, browser, exitCode, districtVars, upazilaVars, upSlug, html, matched, allPaths,
                  finalRoad, files >>

\* one turn of a download loop: downloadImage(browser, url, dest); idx++
download(rel, dest) ==
  \E o \in Outcomes :
    LET call == downloadImage(urlOf[rel], dest, o, files)
    IN  /\ lastDl' = << call >>
        /\ idle
        /\ files' = call.files
        /\ out' = call.log
        /\ IF call.escaped
             THEN /\ pc' = "fatal"
                  /\ UNCHANGED << idx, k >>
             ELSE /\ idx' = nextIdx(idx)
                  /\ k' = k + 1
                  /\ pc' = pc

\* for (const rel of finalUpazila)
DownloadUpazila ==
  /\ pc = "upazila_maps"
  /\ k <= Len(finalUpazila)
  /\ download(finalUpazila[k], upazilaDest(districtSlug, upSlug, idx))
  /\ UNCHANGED << runVars, browser, exitCode, districtVars, upazilaVars, upSlug, html, matched, allPaths,
                  finalUpazila, finalRoad >>

\* idx = 1 before the road loop
StartRoad ==
  /\ pc = "upazila_maps"
  /\ k > Len(finalUpazila)
  /\ idx' = firstIdx
  /\ k' = 1
  /\ pc' = "road_maps"
  /\ out' = <<>>
  /\ lastDl' = <<>>
  /\ idle
  /\ UNCHANGED << runVars, browser, exitCode, districtVars, upazilaVars, upSlug, html, matched, allPaths,
                  finalUpazila, finalRoad, files >>

\* for (const rel of finalRoad)
DownloadRoad ==
  /\ pc = "road_maps"
  /\ k <= Len(finalRoad)
  /\ download(finalRoad[k], roadDest(districtSlug, upSlug, idx))
  /\ UNCHANGED << runVars, browser, exitCode, districtVars, upazilaVars, upSlug, html, matched, allPaths,
                  finalUpazila, finalRoad >>

\* sleep(1000) after the leaf
LeafPace ==
  /\ pc = "road_maps"
  /\ k > Len(finalRoad)
  /\ nextUpazila
  /\ noLeaf
  /\ out' = <<>>
  /\ lastDl' = <<>>
  /\ lastRead' = <<>>
  /\ sleep(LEAF_PACE_MS)
  /\ UNCHANGED << runVars, browser, exitCode, districtVars, files >>

\* sleep(2000) after the district
DistrictPace ==
  /\ pc = "district_pace"
  /\ nextDistrict
  /\ out' = <<>>
  /\ lastDl' = <<>>
  /\ lastRead' = <<>>
  /\ sleep(DISTRICT_PACE_MS)
  /\ UNCHANGED << runVars, browser, exitCode, leafVars, files >>

\* browser.close(), the last console.log, and the process ends
Finish ==
  /\ pc = "finish"
  /\ browser' = "closed"
  /\ out' = << line("log", "Done.", "") >>
  /\ lastDl' = <<>>
  /\ idle
  /\ exitCode' = 0
  /\ pc' = "done"
  /\ UNCHANGED << runVars, districtVars, upazilaVars, leafVars, files >>

\* .catch(err => { console.error("Fatal error:", err); process.exit(1); })
Fatal ==
  /\ pc = "fatal"
  /\ out' = << line("error", "Fatal error:", "") >>
  /\ lastDl' = <<>>
  /\ idle
  /\ exitCode' = 1
  /\ pc' = "exited"
  /\ UNCHANGED << runVars, browser, districtVars, upazilaVars, leafVars, files >>

\* the script is started again on the output folder the last run left
Rerun ==
  /\ pc \in {"done", "exited"}
  /\ run < MaxRuns
  /\ run' = run + 1
  /\ pc' = "launch"
  /\ browser' = "none"
  /\ exitCode' = -1
  /\ districts' = <<>>
  /\ di' = 0
  /\ districtSlug' = ""
  /\ upazilas' = <<>>
  /\ ui' = 0
  /\ noLeaf
  /\ lastDl' = <<>>
  /\ lastRead' = <<>>
  /\ slept' = 0
  /\ pending' = 0
  /\ out' = <<>>
  /\ UNCHANGED << files, probe >>

Next ==
  \/ Launch
  \/ ReadDistricts
  \/ NoDistricts
  \/ FoundDistricts
  \/ SelectDistrict
  \/ SettleDistrict
  \/ ReadUpazilas
  \/ NoUpazilas
  \/ FoundUpazilas
  \/ SelectUpazila
  \/ SettleUpazila
  \/ Scrape
  \/ NoPaths
  \/ Classified
  \/ DownloadUpazila
  \/ StartRoad
  \/ DownloadRoad
  \/ LeafPace
  \/ DistrictPace
  \/ Finish
  \/ Fatal

\* one run of the script on an empty output folder
Spec == Init /\ [][Next]_vars

\* one run in which every await of main returns: main is one sequential
\* function, and the step it stands at is taken when the call it awaits
\* resolves or rejects
SpecLive == Init /\ [][Next]_vars /\ WF_vars(Next)

NextRerun ==
  \/ Next
  \/ Rerun

\* the script run again and again on the same output folder
SpecRerun == Init /\ [][NextRerun]_vars

\* ------------------------------------------------------------------
\* The naming of two tasks, side by side
\* ------------------------------------------------------------------

\* labels an option list can report
ProbeLabels == {"Dhaka", "DHAKA", "Cox's", "Coxs", "A", "A B", "B-C", "C", "-"}

Categories == {"upazila", "road"}

ProbeTasks ==
  [district : ProbeLabels, up : ProbeLabels, category : Categories, idx : 1..MaxOrdinal]

\* dest as the download loops build it for the idx-th path of a category
destOf(t) ==
  IF t.category = "upazila"
    THEN upazilaDest(slugify(t.district), slugify(t.up), t.idx)
    ELSE roadDest(slugify(t.district), slugify(t.up), t.idx)

InitNaming ==
  /\ pc = "launch"
  /\ run = 1
  /\ browser = "none"
  /\ exitCode = -1
  /\ districts = <<>>
  /\ di = 0
  /\ districtSlug = ""
  /\ upazilas = <<>>
  /\ ui = 0
  /\ upSlug = ""
  /\ html = <<>>
  /\ matched = <<>>
  /\ allPaths = <<>>
  /\ finalUpazila = <<>>
  /\ finalRoad = <<>>
  /\ idx = 0
  /\ k = 0
  /\ files = <<>>
  /\ lastDl = <<>>
  /\ out = <<>>
  /\ pending = 0
  /\ lastRead = <<>>
  /\ slept = 0
  /\ \E a, b \in ProbeTasks : probe = << [task |-> a, dest |-> ""], [task |-> b, dest |-> ""] >>

\* both tasks are given their dest
NameTasks ==
  /\ Len(probe) = 2
  /\ probe[1].dest = ""
  /\ probe' = << [task |-> probe[1].task, dest |-> destOf(probe[1].task)],
                 [task |-> probe[2].task, dest |-> destOf(probe[2].task)] >>
  /\ UNCHANGED << pc, run, browser, exitCode, districtVars, upazilaVars, leafVars, files,
                  lastDl, out, pending, lastRead, slept >>

SpecNaming == InitNaming /\ [][NameTasks]_vars

\* ------------------------------------------------------------------
\* Properties
\* ------------------------------------------------------------------

\* the steps during which a leaf is in scope after its scrape
LeafPcs == {"check_paths", "upazila_maps", "road_maps"}

DownloadPcs == {"upazila_maps", "road_maps"}

\* C1 Resume idempotence: a call of downloadImage that finds destPath
\* holding the bytes of the same url, written by an earlier successful
\* call, opens no page, makes no goto and writes nothing, so that the two
\* calls make one fetch and one write between them.
ResumeIdempotence ==
  \A i \in DOMAIN lastDl :
    (lastDl[i].existed /\ lastDl[i].held = lastDl[i].url)
      => (~lastDl[i].opened /\ lastDl[i].gotos = 0 /\ ~lastDl[i].wrote)

\* C2 Failure isolation of a binary fetch: when the goto of a download
\* resolves to a non-2xx response or to null, or throws, no exception
\* escapes downloadImage, nothing is written, exactly one line naming the
\* url is logged and main is still in its download loops.
FetchFailureIsolated ==
  \A i \in DOMAIN lastDl :
    lastDl[i].failure \in {"non2xx", "null", "throw"}
      => /\ ~lastDl[i].escaped
         /\ ~lastDl[i].wrote
         /\ Len(lastDl[i].log) = 1
         /\ lastDl[i].log[1].about = lastDl[i].url
         /\ pc \in DownloadPcs

\* the leaf's page holds paths and none of them contains the upazila's slug
FallbackCase ==
  /\ pc \in LeafPcs
  /\ matched # <<>>
  /\ \A i \in DOMAIN matched : ~includes(toLowerCase(matched[i]), upSlug)

\* C3 Classifier fallback law: at a leaf whose scraped paths are not empty
\* and none contains the slug, the leaf is not skipped (allPaths, which the
\* skip tests, is not empty) and the paths downloaded as upazila maps are the
\* whole scraped list.
FallbackLaw ==
  FallbackCase
    => /\ allPaths # <<>>
       /\ pc \in DownloadPcs => finalUpazila = matched

\* C4 Failures never propagate past their leaf: the process exits with
\* status 1 only before the district loop has started.
LeafFailuresNeverExit == exitCode = 1 => di = 0

\* C5 Write-once local paths: no call of downloadImage writes a path that
\* exists already.
WriteOnce ==
  \A i \in DOMAIN lastDl : lastDl[i].wrote => ~lastDl[i].existed

\* both tasks of the probe have their dest
Named == Len(probe) = 2 /\ probe[1].dest # "" /\ probe[2].dest # ""

slugKey(t) == << slugify(t.district), slugify(t.up), t.category, t.idx >>

\* C6 as claimed, collision-free naming: two tasks that differ in district
\* label, upazila label, category or ordinal are never given the same path.
NamingInjectiveOnLabels ==
  Named => (probe[1].task # probe[2].task => probe[1].dest # probe[2].dest)

\* C6 as amended, collision-free naming of slugs: two tasks are given the
\* same path exactly when they agree in district slug, upazila slug, category
\* and ordinal; labels with the same slug share a path.
NamingInjectiveOnSlugs ==
  Named => (slugKey(probe[1].task) = slugKey(probe[2].task) <=> probe[1].dest = probe[2].dest)

\* C6 witness: the labels "A", "B-C" and "A B", "C", whose slugs are joined by
\* the same characters, are named apart
NamingWitness ==
  /\ Named
  /\ probe[1].task = [district |-> "A", up |-> "B-C", category |-> "upazila", idx |-> 1]
  /\ probe[2].task = [district |-> "A B", up |-> "C", category |-> "upazila", idx |-> 1]
  /\ probe[1].dest = "lged_maps/upazila/a__b_c_upazila_1.jpg"
  /\ probe[2].dest = "lged_maps/upazila/a_b__c_upazila_1.jpg"

\* the paths of the leaf whose lowercased form contains the lowercased needle
retainedBy(needle) ==
  LET T(p) == includes(toLowerCase(p), toLowerCase(needle)) IN SelectSeq(matched, T)

\* the category partition of allPaths, and nothing but allPaths downloaded
Partitioned ==
  /\ pc \in LeafPcs =>
       /\ finalRoad = (LET T(p) == includes(toLowerCase(p), "road") IN SelectSeq(allPaths, T))
       /\ finalUpazila = (LET T(p) == ~includes(toLowerCase(p), "road") IN SelectSeq(allPaths, T))
       /\ \A i \in DOMAIN allPaths :
            member(finalRoad, allPaths[i]) # member(finalUpazila, allPaths[i])
  /\ \A i \in DOMAIN lastDl :
       \E j \in DOMAIN allPaths : lastDl[i].url = resolveURL(allPaths[j])

leafName(dir, category, n) ==
  "lged_maps/" \o dir \o "/" \o slugify(district.text) \o "__" \o slugify(up.text)
    \o "_" \o category \o "_" \o ToString(n) \o ".jpg"

\* the call is the dispatch of the n-th Primary candidate of the leaf
primaryDispatch(call, n) ==
  /\ n \in 1..Len(finalUpazila)
  /\ ~includes(toLowerCase(finalUpazila[n]), "road")
  /\ call.url = resolveURL(finalUpazila[n])
  /\ call.destPath = leafName("upazila", "upazila", n)

\* the call is the dispatch of the n-th Secondary candidate of the leaf
secondaryDispatch(call, n) ==
  /\ n \in 1..Len(finalRoad)
  /\ includes(toLowerCase(finalRoad[n]), "road")
  /\ call.url = resolveURL(finalRoad[n])
  /\ call.destPath = leafName("road", "road", n)

isPrefix(pre, s) == Len(pre) <= Len(s) /\ SubSeq(s, 1, Len(pre)) = pre

\* in every state: the ordinal of a download loop is the position of its
\* candidate, the call a step made is the dispatch of the candidate of that
\* position to the name of that ordinal, a saved candidate is the file of
\* that name, and the two folders hold the files of their category only
LeafNamingState ==
  /\ pc \in DownloadPcs => idx = k
  /\ \A i \in DOMAIN lastDl :
       LET call == lastDl[i]
           n == IF call.escaped THEN k ELSE k - 1
       IN  /\ pc = "upazila_maps" => primaryDispatch(call, n)
           /\ pc = "road_maps" => secondaryDispatch(call, n)
           /\ primaryDispatch(call, n) \/ secondaryDispatch(call, n)
           /\ call.wrote =>
                /\ call.destPath \in DOMAIN files
                /\ files[call.destPath] = call.url
                /\ out = << line("log", "Saved:", call.destPath) >>
  /\ \A f \in DOMAIN files :
       /\ isPrefix("lged_maps/upazila/", f) \/ isPrefix("lged_maps/road/", f)
       /\ isPrefix("lged_maps/road/", f) <=> includes(toLowerCase(files[f]), "road")

\* in every step: a download loop starts at ordinal 1, a turn of it moves the
\* ordinal by one whether or not it saved, and the files that change are the
\* one file of a saved candidate
LeafNamingStep ==
  /\ (pc' \in DownloadPcs /\ pc' # pc) => idx' = 1
  /\ (pc' \in DownloadPcs /\ pc' = pc) => (idx' = idx + 1 /\ lastDl' # <<>>)
  /\ \A f \in DOMAIN files : f \in DOMAIN files'
  /\ \A f \in DOMAIN files' :
       \/ f \in DOMAIN files /\ files'[f] = files[f]
       \/ \E i \in DOMAIN lastDl' : lastDl'[i].wrote /\ lastDl'[i].destPath = f

\* C8 Leaf output naming and ordinals: at a leaf with district slug d and
\* upazila slug u the k-th Primary candidate is dispatched to
\* upazila/d__u_upazila_k.jpg and the k-th Secondary candidate to
\* road/d__u_road_k.jpg, the ordinals start at 1 in each category of each
\* leaf and advance by one per candidate whether or not its download
\* succeeds, a candidate that is saved is written as exactly that one file,
\* and no Primary file is under road/ nor a Secondary file under upazila/.
LeafNaming == []LeafNamingState /\ [][LeafNamingStep]_vars

\* C8 witness: Dhaka/Savar with savar.jpg and savar_road.jpg, both saved
LeafNamingWitness ==
  /\ pc = "road_maps"
  /\ district.text = "Dhaka"
  /\ up.text = "Savar"
  /\ matched = << "/UploadedDocument/x/savar.jpg", "/UploadedDocument/x/savar_road.jpg" >>
  /\ k = 2
  /\ lastDl # <<>>
  /\ DOMAIN files =
       { "lged_maps/upazila/dhaka__savar_upazila_1.jpg", "lged_maps/road/dhaka__savar_road_1.jpg" }
  /\ files["lged_maps/upazila/dhaka__savar_upazila_1.jpg"]
       = "https://oldweb.lged.gov.bd/UploadedDocument/x/savar.jpg"
  /\ files["lged_maps/road/dhaka__savar_road_1.jpg"]
       = "https://oldweb.lged.gov.bd/UploadedDocument/x/savar_road.jpg"

\* the district's upazila list was read and is empty
EmptyUpazilaCase == pc = "check_upazilas" /\ upazilas = <<>>

\* C9 TransitionFailure isolation: the step taken at a district whose
\* upazila option list is empty logs exactly one warning, which names that
\* district, selects no upazila, makes no download and writes no file, does
\* not end the run, and goes on to the next district of the list, or to the
\* end of the district loop when there is none.
EmptyUpazilaIsolated ==
  [][ EmptyUpazilaCase =>
        /\ out' = << line("warn", "No upazilas found for district:", districts[di].text) >>
        /\ lastDl' = <<>>
        /\ files' = files
        /\ ui' = 0
        /\ exitCode' = -1
        /\ browser' = "open"
        /\ districts' = districts
        /\ IF di < Len(districts)
             THEN di' = di + 1 /\ pc' = "select_district"
             ELSE di' = di /\ pc' = "finish" ]_vars

\* C9 witness: the first of two districts had no upazila, the second is next
EmptyUpazilaWitness ==
  /\ pc = "select_district"
  /\ Len(districts) = 2
  /\ di = 2
  /\ out = << line("warn", "No upazilas found for district:", districts[1].text) >>
  /\ files = <<>>
  /\ exitCode = -1

\* the district list was read and is empty
DiscoveryFailureCase == pc = "check_districts" /\ districts = <<>>

\* C10 DiscoveryFailure is fatal and clean: when the district list is read
\* no district or upazila has been selected and nothing downloaded or
\* written; the step taken when it is empty exits with status 1 with the
\* browser closed, having selected, downloaded and written nothing; and
\* nothing happens after the exit.
DiscoveryFatal ==
  /\ [](pc = "check_districts" => (di = 0 /\ ui = 0 /\ files = <<>> /\ lastDl = <<>>))
  /\ [][ DiscoveryFailureCase =>
           /\ pc' = "exited"
           /\ exitCode' = 1
           /\ browser' = "closed"
           /\ di' = 0
           /\ ui' = 0
           /\ lastDl' = <<>>
           /\ files' = <<>> ]_vars
  /\ [][ pc # "exited" ]_vars

\* C10 witness: the run that ended on the empty district list
DiscoveryFatalWitness ==
  /\ pc = "exited"
  /\ out = << line("error", "No districts found.", "") >>
  /\ exitCode = 1
  /\ browser = "closed"
  /\ di = 0
  /\ files = <<>>

\* the root the maps are served from
UploadedRoot == "https://oldweb.lged.gov.bd/UploadedDocument/"

\* C11 Root containment of fetched URLs: every URL passed to downloadImage
\* is on the base host and under its /UploadedDocument/ root.
RootContained ==
  \A i \in DOMAIN lastDl : isPrefix(UploadedRoot, lastDl[i].url)

\* C12 Settle before read: every read of the upazila option list and of the
\* links of a leaf is made after the round trip of the latest selection has
\* settled, whatever its latency.
SettledBeforeRead ==
  \A i \in DOMAIN lastRead : lastRead[i].pending = 0

\* C13 Session release on every exit path: when the process has exited, a
\* browser that was launched has been closed.
SessionReleased == exitCode # -1 => browser # "open"

\* C14 Pacing after every leaf and every district: the step that brings main
\* to the selection of a further upazila of a district, or of a further
\* district, has slept the pacing delay, also after a leaf without paths and
\* after a district without upazilas.
PacedAlways ==
  /\ (pc = "select_upazila" /\ ui >= 2) => slept > 0
  /\ (pc = "select_district" /\ di >= 2) => slept > 0

\* the position of the two loops moves as a for-of loop over a fixed list does
OrderedStep ==
  /\ districts # <<>> => districts' = districts
  /\ di' = di \/ di' = di + 1
  /\ di' = di + 1 =>
       /\ di' <= Len(districts)
       /\ ui = Len(upazilas)
       /\ ui' = 0
       /\ pc' = "select_district"
  /\ (di' = di /\ pc' # "finish") =>
       /\ ui >= 1 => upazilas' = upazilas
       /\ ui' = ui \/ ui' = ui + 1
       /\ ui' = ui + 1 => (ui' <= Len(upazilas) /\ pc' = "select_upazila")
  /\ (pc' = "finish" /\ pc # "finish") =>
       /\ di = Len(districts)
       /\ ui = Len(upazilas)
       /\ di' = di
  /\ (pc' = "select_district" /\ pc # "select_district") => di' = di + 1
  /\ (pc' = "select_upazila" /\ pc # "select_upazila") => (di' = di /\ ui' = ui + 1)
  /\ pc = "select_district" =>
       pc' # pc /\ out' = << line("log", "=== District:", districts[di].text) >>
  /\ pc = "select_upazila" =>
       pc' # pc /\ out' = << line("log", "-> Upazila:", upazilas[ui].text) >>

noRepeat(seq) == \A i, j \in DOMAIN seq : seq[i] = seq[j] => i = j

\* in every state of a leaf: every path of the markup is one candidate
\* however often it occurs, and no path stands twice in the lists of the
\* download loops or in both of them
OneTaskPerPath ==
  pc \in LeafPcs =>
    /\ noRepeat(matched)
    /\ noRepeat(finalUpazila)
    /\ noRepeat(finalRoad)
    /\ \A i \in DOMAIN html : member(matched, html[i])
    /\ \A i \in DOMAIN matched : member(html, matched[i])
    /\ \A i \in DOMAIN finalUpazila : ~member(finalRoad, finalUpazila[i])

\* in every step of a download loop: the loop goes on to the next position
\* of an unchanged list, whether the call saved or failed
NoRetryStep ==
  (pc \in DownloadPcs /\ pc' = pc) =>
    /\ k' = k + 1
    /\ finalUpazila' = finalUpazila
    /\ finalRoad' = finalRoad
    /\ lastDl' # <<>>
    /\ lastDl'[1].gotos <= 1

\* C16 No retry and per-leaf dedup: at a leaf every distinct scraped path is
\* dispatched to downloadImage at most once, repeated occurrences in the
\* markup giving one task, and a task that failed is not attempted again:
\* each call makes at most one goto and the loop moves to the next path.
NoRetryOneTask == []OneTaskPerPath /\ [][NoRetryStep]_vars

\* C16 witness: a path that stands twice in the markup was dispatched once,
\* the fetch failed, and the loop is past it
NoRetryWitness ==
  /\ pc = "upazila_maps"
  /\ html = << "/UploadedDocument/x/savar.jpg", "/UploadedDocument/x/savar.jpg" >>
  /\ finalUpazila = << "/UploadedDocument/x/savar.jpg" >>
  /\ k = 2
  /\ lastDl # <<>>
  /\ lastDl[1].failure = "non2xx"
  /\ files = <<>>

\* the terminal state: after the last upazila of the last district the
\* browser is closed, the completion message logged and the exit status 0
Completed ==
  /\ pc = "done"
  /\ di = Len(districts)
  /\ di >= 1
  /\ browser = "closed"
  /\ out = << line("log", "Done.", "") >>
  /\ exitCode = 0

\* C17 Termination: when every awaited call returns, a run with a district
\* list that is not empty reaches the terminal state, unless a call outside
\* the try block of downloadImage throws and the exception reaches the
\* top-level catch.
Terminates == <>(Completed \/ pc = "fatal" \/ DiscoveryFailureCase)

\* C17 witness: the terminal state after two districts, with two maps saved
TerminatesWitness ==
  /\ Completed
  /\ di = 2
  /\ Cardinality(DOMAIN files) = 2

\* the leaf was scraped and no candidate path is left
NoCandidatesCase == pc = "check_paths" /\ allPaths = <<>>

\* the step taken at a leaf without candidate paths
SoftMissStep ==
  NoCandidatesCase =>
    /\ out' = << line("warn", "No UploadedDocument JPG paths found for", upazilas[ui].text) >>
    /\ lastDl' = <<>>
    /\ files' = files
    /\ exitCode' = -1
    /\ browser' = "open"
    /\ districts' = districts
    /\ di' = di
    /\ upazilas' = upazilas
    /\ IF ui < Len(upazilas)
         THEN ui' = ui + 1 /\ pc' = "select_upazila"
         ELSE ui' = ui /\ pc' = "district_pace"

\* C18 ClassificationMiss is a soft miss: a leaf that is left with no
\* candidate path has no task in either category and has dispatched none;
\* the step taken there logs exactly one warning, which names the upazila,
\* dispatches no download, writes no file, leaves the exit status and the
\* browser alone, and goes on to the next upazila of the same district, or
\* to the end of the district when there is none.
SoftMiss ==
  /\ [](NoCandidatesCase => (finalUpazila = <<>> /\ finalRoad = <<>> /\ lastDl = <<>>))
  /\ [][SoftMissStep]_vars

\* C18 witness: the first of two upazilas had no candidate path, the second
\* is next
SoftMissWitness ==
  /\ pc = "select_upazila"
  /\ Len(upazilas) = 2
  /\ ui = 2
  /\ out = << line("warn", "No UploadedDocument JPG paths found for", upazilas[1].text) >>
  /\ files = <<>>
  /\ exitCode = -1

\* C19 Per-download page lifecycle: a call of downloadImage that opened a
\* page calls page.close() on it exactly once and does not leave it open,
\* however the call ends.
PageClosedOnce ==
  \A i \in DOMAIN lastDl :
    lastDl[i].opened => (lastDl[i].closeCalls = 1 /\ ~lastDl[i].leftOpen)

====
